---- MODULE Spec2Model ----
(***************************************************************************)
(* Model of exp/exp_long_term_forecasting.py: the training loop with its   *)
(* early-stopping controller and checkpoint, the validation loop, the      *)
(* loss policy (SLAFocusedLoss, _select_criterion), the decoder-input      *)
(* builder, the checkpoint paths and the channel tiling of test/predict.   *)
(***************************************************************************)
EXTENDS Integers, Sequences, FiniteSets, TLC

\* ------------------------------------------------------------------ bounds
MaxEpochs == 4
MaxPatience == 2
MaxLoss == 3
MaxBatches == 1
MaxElems == 2       \* elements of a loss tensor
MaxLen == 4         \* label_len and pred_len
MaxChan == 4        \* channel counts
MaxSteps == 2       \* time steps of an output batch
MaxMark == 4        \* time steps of batch_y_mark

\* ------------------------------------------------------------- state
VARIABLES
    pc,             \* position of the caller: idle, inside train(), inside vali(), finished
    mode,           \* self.model.training: "train" or "eval"
    args,           \* self.args: train_epochs, patience, loss
    loaders,        \* len() of the train / val / test loaders of train()
    epoch,          \* number of epochs executed so far by the loop
    i,              \* batches processed in the running epoch
    params,         \* identity of the model parameters: number of optimizer steps taken
    ckpt,           \* content of {path}/checkpoint.pth
    early_stopping, \* the EarlyStopping controller
    criterion,      \* local variable criterion of _select_criterion / train
    vali_loss,      \* value returned by the last vali() call
    vali,           \* the running vali() call: caller, loader length, batch index
    hist,           \* history: per-epoch losses and parameters, calls made
    slaLoss,        \* one SLAFocusedLoss object and its forward() call
    dec,            \* one batch of a loop and the decoder input built from it
    ckptPaths,      \* args.checkpoints, setting and the checkpoint paths used
    tile            \* one output batch of test() / predict() on its way to inverse_transform

trainVars == <<pc, mode, args, loaders, epoch, i, params, ckpt, early_stopping,
               criterion, vali_loss, vali, hist>>
pureVars == <<slaLoss, dec, ckptPaths, tile>>
vars == <<pc, mode, args, loaders, epoch, i, params, ckpt, early_stopping,
          criterion, vali_loss, vali, hist, slaLoss, dec, ckptPaths, tile>>

NoFile == -2     \* checkpoint.pth does not exist
Stale == -1      \* checkpoint.pth left by an earlier run
NaN == -1        \* np.average([]) of vali() over an empty loader

LossVals == 1..MaxLoss

\* values of args.loss; "<absent>" is an args object without the attribute
LossKinds == {"<absent>", "MSE", "mse", "SLA", "Sla", "MAE", "huber"}

\* str.upper() on the configured loss names
Upper(s) ==
    CASE s = "mse" -> "MSE"
      [] s = "Sla" -> "SLA"
      [] s = "huber" -> "HUBER"
      [] OTHER -> s

\* ------------------------------------------------- _select_criterion
\* local variable criterion after the if / elif chain; "<unbound>" when no
\* branch assigned it
CriterionFor(loss_type) ==
    CASE loss_type = "SLA" -> "SLAFocusedLoss"
      [] loss_type = "MSE" -> "MSELoss"
      [] OTHER -> "<unbound>"

\* getattr(self.args, 'loss', 'MSE').upper()
LossType(loss) == IF loss = "<absent>" THEN "MSE" ELSE Upper(loss)

\* outcome of _select_criterion: the criterion returned, or the exception
\* raised by `return criterion` on an unbound local
_select_criterion(loss) ==
    LET c == CriterionFor(LossType(loss))
    IN IF c = "<unbound>"
       THEN [raised |-> "UnboundLocalError", criterion |-> "<unbound>"]
       ELSE [raised |-> "none", criterion |-> c]

\* ------------------------------------------------- EarlyStopping
EarlyStoppingInit(patience) ==
    [patience |-> patience, counter |-> 0, best_score |-> NaN, early_stop |-> FALSE]

\* early_stopping(val_loss, model, path): TRUE when the call saves the model
Improves(es, val_loss) == es.best_score = NaN \/ val_loss < es.best_score

EarlyStoppingCall(es, val_loss) ==
    IF Improves(es, val_loss)
    THEN [es EXCEPT !.best_score = val_loss, !.counter = 0]
    ELSE [es EXCEPT !.counter = es.counter + 1,
                    !.early_stop = (es.counter + 1 >= es.patience)]

\* ------------------------------------------------- train(): pieces
\* `if early_stopping.early_stop: break`
LoopBreaksNever(es) == FALSE
LoopBreaks(es) == es.early_stop

\* adjust_learning_rate calls after the epoch: skipped by the break
AdjustAlways(n, stop) == n + 1
AdjustCalls(n, stop) == IF stop THEN n ELSE n + 1

\* self.model.load_state_dict(torch.load(best_model_path))
KeepLast(p, file) == p
LoadStateDict(p, file) == file

\* ------------------------------------------------- Init
TrainInit ==
    /\ pc = "idle"
    /\ mode = "train"
    /\ args = [train_epochs |-> 0, patience |-> 1, loss |-> "<absent>"]
    /\ loaders = [train |-> 0, val |-> 1, test |-> 0]
    /\ epoch = 0
    /\ i = 0
    /\ params = 0
    /\ ckpt \in {NoFile, Stale}
    /\ early_stopping = EarlyStoppingInit(1)
    /\ criterion = "<unbound>"
    /\ vali_loss = NaN
    /\ vali = [caller |-> "none", n |-> 0, i |-> 0, fwd |-> {}, entry |-> "train",
               ret |-> NaN]
    /\ hist = [val |-> <<>>, endParams |-> <<>>, lrCalls |-> 0, batches |-> 0]

\* ------------------------------------------------- vali()
\* lines 104-107: total_loss = [], self.model.eval()
ValiEnter(caller, n) ==
    /\ vali' = [caller |-> caller, n |-> n, i |-> 0, fwd |-> {}, entry |-> mode,
                ret |-> NaN]
    /\ mode' = "eval"
    /\ pc' = "vali"

\* lines 108-149: one batch, forward and loss only
ValiBatch ==
    /\ pc = "vali"
    /\ vali.i < vali.n
    /\ vali' = [vali EXCEPT !.i = vali.i + 1, !.fwd = vali.fwd \cup {mode}]
    /\ UNCHANGED <<mode, pc, args, loaders, epoch, i, params, ckpt,
                   early_stopping, criterion, vali_loss, hist,
                   slaLoss, dec, ckptPaths, tile>>

\* line 151: self.model.train(), whatever the mode at entry was
ModelRestore(entry) == entry
ModelTrain(entry) == "train"

\* lines 150-152: np.average(total_loss), self.model.train(), return
ValiReturn ==
    /\ pc = "vali"
    /\ vali.i = vali.n
    /\ \E loss \in LossVals :
         LET total_loss == IF vali.n = 0 THEN NaN ELSE loss
         IN /\ vali' = [vali EXCEPT !.ret = total_loss]
            /\ vali_loss' = IF vali.caller = "val" THEN total_loss ELSE vali_loss
    /\ mode' = ModelTrain(vali.entry)
    /\ pc' = CASE vali.caller = "val" -> "after_val"
               [] vali.caller = "test" -> "early_stopping"
               [] OTHER -> "vali_returned"
    /\ UNCHANGED <<args, loaders, epoch, i, params, ckpt, early_stopping,
                   criterion, hist,
                   slaLoss, dec, ckptPaths, tile>>

\* a caller other than train() runs vali() on a loader of any length
ValiStandalone ==
    /\ pc = "idle"
    /\ \E n \in 0..MaxBatches : ValiEnter("caller", n)
    /\ UNCHANGED <<args, loaders, epoch, i, params, ckpt, early_stopping,
                   criterion, vali_loss, hist,
                   slaLoss, dec, ckptPaths, tile>>

\* self.model.eval() of test() (line 309) and predict() (line 440)
ModelEval ==
    /\ pc = "idle"
    /\ mode = "train"
    /\ mode' = "eval"
    /\ UNCHANGED <<pc, args, loaders, epoch, i, params, ckpt, early_stopping,
                   criterion, vali_loss, vali, hist,
                   slaLoss, dec, ckptPaths, tile>>

\* ------------------------------------------------- train()
\* lines 155-176: loaders, checkpoint directory, EarlyStopping, criterion
TrainStart ==
    /\ pc = "idle"
    /\ \E te \in 0..MaxEpochs, pat \in 1..MaxPatience, loss \in LossKinds,
          nt \in 0..MaxBatches, nv \in 1..MaxBatches, ns \in 0..MaxBatches :
         /\ args' = [train_epochs |-> te, patience |-> pat, loss |-> loss]
         /\ loaders' = [train |-> nt, val |-> nv, test |-> ns]
         /\ early_stopping' = EarlyStoppingInit(pat)
         /\ criterion' = _select_criterion(loss).criterion
         /\ pc' = IF _select_criterion(loss).raised = "none"
                  THEN "loop_head" ELSE _select_criterion(loss).raised
    /\ UNCHANGED <<mode, epoch, i, params, ckpt, vali_loss, vali, hist,
                   slaLoss, dec, ckptPaths, tile>>

\* line 178-183: for epoch in range(train_epochs); self.model.train()
LoopHead ==
    /\ pc = "loop_head"
    /\ IF epoch < args.train_epochs
       THEN /\ pc' = "batch"
            /\ mode' = "train"
            /\ i' = 0
       ELSE /\ pc' = "loop_exit"
            /\ UNCHANGED <<mode, i>>
    /\ UNCHANGED <<args, loaders, epoch, params, ckpt, early_stopping, criterion,
                   vali_loss, vali, hist,
                   slaLoss, dec, ckptPaths, tile>>

\* lines 184-257: one training batch: forward, loss, backward, optimizer step
TrainBatch ==
    /\ pc = "batch"
    /\ i < loaders.train
    /\ i' = i + 1
    /\ params' = params + 1
    /\ hist' = [hist EXCEPT !.batches = hist.batches + 1]
    /\ UNCHANGED <<pc, mode, args, loaders, epoch, ckpt, early_stopping, criterion,
                   vali_loss, vali,
                   slaLoss, dec, ckptPaths, tile>>

\* line 265: vali_loss = self.vali(vali_data, vali_loader, criterion)
ValiOnVal ==
    /\ pc = "batch"
    /\ i = loaders.train
    /\ ValiEnter("val", loaders.val)
    /\ UNCHANGED <<args, loaders, epoch, i, params, ckpt, early_stopping,
                   criterion, vali_loss, hist,
                   slaLoss, dec, ckptPaths, tile>>

\* line 266: test_loss = self.vali(test_data, test_loader, criterion)
ValiOnTest ==
    /\ pc = "after_val"
    /\ ValiEnter("test", loaders.test)
    /\ UNCHANGED <<args, loaders, epoch, i, params, ckpt, early_stopping,
                   criterion, vali_loss, hist,
                   slaLoss, dec, ckptPaths, tile>>

\* lines 273-278: early_stopping(vali_loss, ...), break or adjust_learning_rate
EpochEnd ==
    /\ pc = "early_stopping"
    /\ LET es == EarlyStoppingCall(early_stopping, vali_loss)
       IN /\ early_stopping' = es
          /\ ckpt' = IF Improves(early_stopping, vali_loss) THEN params ELSE ckpt
          /\ hist' = [hist EXCEPT !.val = Append(hist.val, vali_loss),
                                  !.endParams = Append(hist.endParams, params),
                                  !.lrCalls = AdjustCalls(hist.lrCalls, LoopBreaks(es))]
          /\ pc' = IF LoopBreaks(es) THEN "loop_exit" ELSE "loop_head"
    /\ epoch' = epoch + 1
    /\ UNCHANGED <<mode, args, loaders, i, params, criterion, vali_loss, vali,
                   slaLoss, dec, ckptPaths, tile>>

\* lines 288-291: load {path}/checkpoint.pth and return the model
LoadBest ==
    /\ pc = "loop_exit"
    /\ IF ckpt = NoFile
       THEN /\ pc' = "FileNotFoundError"
            /\ UNCHANGED params
       ELSE /\ pc' = "returned"
            /\ params' = LoadStateDict(params, ckpt)
    /\ UNCHANGED <<mode, args, loaders, epoch, i, ckpt, early_stopping, criterion,
                   vali_loss, vali, hist,
                   slaLoss, dec, ckptPaths, tile>>
Init ==
    /\ TrainInit
    /\ slaLoss = "unused"
    /\ dec = "unused"
    /\ ckptPaths = "unused"
    /\ tile = "unused"

Next ==
    \/ TrainStart
    \/ LoopHead
    \/ TrainBatch
    \/ ValiOnVal
    \/ ValiOnTest
    \/ EpochEnd
    \/ LoadBest
    \/ ValiBatch
    \/ ValiReturn
    \/ ValiStandalone
    \/ ModelEval

Spec == Init /\ [][Next]_vars
\* ------------------------------------------------- properties of train()
\* the epoch loop of train() has been left (break or range exhausted)
LoopExited == pc \in {"loop_exit", "returned", "FileNotFoundError"}

\* train() has ended after its loop: returned the model or raised on the load
TrainEnded == pc \in {"returned", "FileNotFoundError"}

\* the returned parameters are those at the end of an executed epoch whose
\* validation loss is the lowest of the run
ReturnsBest ==
    /\ pc = "returned"
    /\ \E k \in 1..Len(hist.val) :
         /\ \A j \in 1..Len(hist.val) : hist.val[k] <= hist.val[j]
         /\ params = hist.endParams[k]

\* C1 as stated: for every train_epochs >= 0, train() ends by loading the
\* checkpoint and the returned parameters are those of the executed epoch
\* with the lowest validation loss.
C1_AsStated == TrainEnded => ReturnsBest

\* C1 amended: for every train_epochs >= 1 (at least one epoch executed),
\* train() ends by loading the checkpoint and the returned parameters are
\* those of the executed epoch with the lowest validation loss.
C1_ReturnsBestCheckpoint == (TrainEnded /\ args.train_epochs >= 1) => ReturnsBest

\* a run whose best epoch is not its last one, returned with the best
C1_Witness ==
    /\ pc = "returned"
    /\ epoch >= 2
    /\ loaders.train >= 1
    /\ params # hist.endParams[epoch]
    /\ hist.val[epoch] > hist.val[1]

\* C2: the loop halts right after the epoch at which the controller's count
\* of non-improving epochs reaches patience, never earlier while epochs
\* remain; a first epoch followed by patience worse epochs runs exactly
\* patience+1 epochs; no training batch is processed after the stop signal.
C2_HaltsAtPatience ==
    /\ [](/\ early_stopping.counter >= early_stopping.patience => LoopExited
          /\ (LoopExited /\ epoch < args.train_epochs)
                => early_stopping.counter = early_stopping.patience
          /\ (/\ LoopExited
              /\ args.train_epochs >= args.patience + 1
              /\ \A k \in 2..Len(hist.val) : hist.val[k] > hist.val[1])
                => epoch = args.patience + 1)
    /\ [][early_stopping.early_stop => hist'.batches = hist.batches]_vars

\* stopped by the controller after patience+1 epochs with epochs remaining
C2_Witness ==
    /\ pc = "returned"
    /\ early_stopping.early_stop
    /\ args.patience = 2
    /\ epoch = 3
    /\ epoch < args.train_epochs
    /\ hist.batches = 3

\* C3 as stated: adjust_learning_rate is called once after every executed
\* epoch, the stopping one included: calls = epochs executed.
C3_AsStated == LoopExited => hist.lrCalls = epoch

\* C3 amended: adjust_learning_rate is called once after every executed
\* epoch except the one at which the controller signals stop: calls =
\* epochs executed, minus one when the loop was left by the break.
C3_AdjustExceptOnStop ==
    hist.lrCalls = IF early_stopping.early_stop THEN epoch - 1 ELSE epoch

C3_Witness ==
    /\ pc = "returned"
    /\ early_stopping.early_stop
    /\ epoch >= 2
    /\ hist.lrCalls = epoch - 1

\* train() has been entered
TrainStarted ==
    /\ pc \notin {"idle", "vali_returned"}
    /\ ~(pc = "vali" /\ vali.caller = "caller")

\* C4: a loss kind other than MSE / SLA ends _select_criterion in a
\* dedicated unsupported-loss error before any batch; MSE, SLA and an absent
\* option return a criterion.
C4_UnsupportedLossError ==
    TrainStarted =>
        IF LossType(args.loss) \in {"MSE", "SLA"}
        THEN criterion \in {"MSELoss", "SLAFocusedLoss"} /\ pc # "UnboundLocalError"
        ELSE pc = "UnsupportedLossError" /\ hist.batches = 0

\* C7: whenever vali() has returned the model is in training mode; every
\* forward call inside vali() ran in evaluation mode; vali() takes no
\* backward pass and no optimizer step.
C7_ValiRestoresTrainMode ==
    /\ [](/\ pc \in {"after_val", "early_stopping", "vali_returned"} => mode = "train"
          /\ vali.fwd \subseteq {"eval"})
    /\ [][pc = "vali" => (params' = params /\ hist'.batches = hist.batches)]_vars

\* vali() entered in evaluation mode, ran a forward call and returned
C7_Witness ==
    /\ pc = "vali_returned"
    /\ vali.entry = "eval"
    /\ vali.i >= 1
    /\ vali.fwd = {"eval"}
    /\ mode = "train"
\* ------------------------------------------------- SLAFocusedLoss
RECURSIVE SumSeq(_)
SumSeq(q) == IF q = <<>> THEN 0 ELSE q[1] + SumSeq(Tail(q))

\* line 40: base_error = (predictions - targets) ** 2, per element
BaseError(p, t) == (p - t) * (p - t)

\* the severe under-prediction mask without the offset of 50
WeightNoOffset(c, p, t) ==
    LET w0 == c.normal_penalty
        w1 == IF t > c.sla_threshold THEN c.high_penalty ELSE w0
        w2 == IF t < c.good_threshold THEN c.low_penalty ELSE w1
    IN IF t > c.sla_threshold /\ p < c.sla_threshold THEN 2 * w2 ELSE w2

\* the masks compared with >= / <= instead of > / <
WeightInclusive(c, p, t) ==
    LET w0 == c.normal_penalty
        w1 == IF t >= c.sla_threshold THEN c.high_penalty ELSE w0
        w2 == IF t <= c.good_threshold THEN c.low_penalty ELSE w1
    IN IF t >= c.sla_threshold /\ p < c.sla_threshold - 50 THEN 2 * w2 ELSE w2

\* lines 43-49: the weight of one element, the assignments in program order
Weight(c, p, t) ==
    LET w0 == c.normal_penalty
        w1 == IF t > c.sla_threshold THEN c.high_penalty ELSE w0
        w2 == IF t < c.good_threshold THEN c.low_penalty ELSE w1
    IN IF t > c.sla_threshold /\ p < c.sla_threshold - 50 THEN 2 * w2 ELSE w2

\* torch.mean over n elements, kept exact as sum / n
Mean(q) == [sum |-> SumSeq(q), n |-> Len(q)]

\* k times a mean
Times(k, m) == [sum |-> k * m.sum, n |-> m.n]

\* nn.MSELoss(): the plain mean squared error
MSELoss(predictions, targets) ==
    Mean([k \in 1..Len(targets) |-> BaseError(predictions[k], targets[k])])

\* SLAFocusedLoss.forward: the weights and the weighted mean
SLAForward(c, predictions, targets) ==
    LET weights == [k \in 1..Len(targets) |-> Weight(c, predictions[k], targets[k])]
    IN [weights |-> weights,
        loss |-> Mean([k \in 1..Len(targets) |->
                        weights[k] * BaseError(predictions[k], targets[k])])]

\* the thresholds as _select_criterion builds them: scaled_low < scaled_high
\* because scaler.scale_ is positive; the penalties of lines 95-97 and the
\* defaults of lines 26-30
SLAConfigs ==
    { [sla_threshold |-> th[2], good_threshold |-> th[1],
       high_penalty |-> pen[1], low_penalty |-> pen[2], normal_penalty |-> pen[3]] :
      th \in {<<0, 2>>, <<1, 3>>}, pen \in {<<15, 3, 1>>, <<15, 8, 1>>} }

PredVals == {-49, -48, 0, 3}
TargVals == {-1, 0, 1, 2, 3, 4}

Tensors(V) == UNION {[1..n -> V] : n \in 1..MaxElems}

LossInit ==
    /\ \E c \in SLAConfigs, t \in Tensors(TargVals) :
         \E p \in [1..Len(t) -> PredVals] :
            slaLoss = [c |-> c, predictions |-> p, targets |-> t,
                       called |-> FALSE, weights |-> <<>>, loss |-> Mean(<<>>)]
    /\ TrainInit /\ ckpt = NoFile
    /\ dec = "unused"
    /\ ckptPaths = "unused"
    /\ tile = "unused"

\* criterion(outputs, batch_y) with the SLA criterion
Forward ==
    /\ ~slaLoss.called
    /\ LET r == SLAForward(slaLoss.c, slaLoss.predictions, slaLoss.targets)
       IN slaLoss' = [slaLoss EXCEPT !.called = TRUE, !.weights = r.weights,
                                     !.loss = r.loss]
    /\ UNCHANGED <<trainVars, dec, ckptPaths, tile>>

LossNext == Forward

SpecLoss == LossInit /\ [][LossNext]_vars

Elems == 1..Len(slaLoss.targets)
AllTargets(P(_)) == \A k \in Elems : P(slaLoss.targets[k])
BelowGood(t) == t < slaLoss.c.good_threshold
AboveSLA(t) == t > slaLoss.c.sla_threshold
Between(t) == t >= slaLoss.c.good_threshold /\ t <= slaLoss.c.sla_threshold
Severe(k) == slaLoss.predictions[k] < slaLoss.c.sla_threshold - 50
PlainMSE == MSELoss(slaLoss.predictions, slaLoss.targets)

\* C6 as stated: for every prediction tensor, targets all below good give
\* low_penalty x MSE, all above SLA give high_penalty x MSE, all between give
\* normal_penalty x MSE.
C6_AsStated ==
    slaLoss.called =>
        /\ AllTargets(BelowGood) => slaLoss.loss = Times(slaLoss.c.low_penalty, PlainMSE)
        /\ AllTargets(AboveSLA) => slaLoss.loss = Times(slaLoss.c.high_penalty, PlainMSE)
        /\ AllTargets(Between) => slaLoss.loss = Times(slaLoss.c.normal_penalty, PlainMSE)

\* C6 amended: targets all below good give low_penalty x MSE and all between
\* give normal_penalty x MSE for every prediction tensor; targets all above
\* SLA give high_penalty x MSE provided no prediction is more than 50 below
\* the SLA threshold.
C6_UniformPenalty ==
    slaLoss.called =>
        /\ AllTargets(BelowGood) => slaLoss.loss = Times(slaLoss.c.low_penalty, PlainMSE)
        /\ (AllTargets(AboveSLA) /\ \A k \in Elems : ~Severe(k))
              => slaLoss.loss = Times(slaLoss.c.high_penalty, PlainMSE)
        /\ AllTargets(Between) => slaLoss.loss = Times(slaLoss.c.normal_penalty, PlainMSE)

\* two targets below good with a non-zero error, loss computed
C6_Witness ==
    /\ slaLoss.called
    /\ Len(slaLoss.targets) = 2
    /\ AllTargets(BelowGood)
    /\ PlainMSE.sum > 0
    /\ slaLoss.loss = Times(slaLoss.c.low_penalty, PlainMSE)

\* C9: an element whose target exceeds the SLA threshold weighs
\* 2 x high_penalty when its prediction is more than 50 below the threshold
\* and high_penalty otherwise; the weight of any other element does not
\* depend on the prediction.
C9_Escalation ==
    slaLoss.called =>
        \A k \in Elems :
            IF AboveSLA(slaLoss.targets[k])
            THEN slaLoss.weights[k] = IF Severe(k) THEN 2 * slaLoss.c.high_penalty
                                       ELSE slaLoss.c.high_penalty
            ELSE \A p \in PredVals :
                    SLAForward(slaLoss.c, [slaLoss.predictions EXCEPT ![k] = p],
                               slaLoss.targets).weights[k] = slaLoss.weights[k]

\* one escalated and one plain element above the SLA threshold
C9_Witness ==
    /\ slaLoss.called
    /\ Len(slaLoss.targets) = 2
    /\ AllTargets(AboveSLA)
    /\ Severe(1) /\ ~Severe(2)
    /\ slaLoss.weights[1] = 2 * slaLoss.weights[2]
\* ------------------------------------------------- decoder input
\* a tensor is modelled along its time axis: a sequence of time steps, a
\* step of batch_y being its position in the window and 0 a zero-filled step

\* Python's seq[start:] for an integer start (negative counts from the end,
\* -0 is 0)
SliceFrom(q, start) ==
    LET n == Len(q)
        lo == IF start < 0 THEN (IF n + start < 0 THEN 0 ELSE n + start)
              ELSE (IF start > n THEN n ELSE start)
    IN SubSeq(q, lo + 1, n)

\* Python's seq[:stop] for stop >= 0
SliceTo(q, stop) == SubSeq(q, 1, IF stop > Len(q) THEN Len(q) ELSE stop)

Zeros(n) == [k \in 1..n |-> 0]

\* the zeros shaped after the last label_len steps instead of the last pred_len
DecInpZerosOfLabel(batch_y, label_len, pred_len) ==
    SliceTo(batch_y, label_len) \o Zeros(Len(SliceFrom(batch_y, 0 - label_len)))

\* lines 195-204 (train), 118-127 (vali), 322-331 (test):
\* cat([batch_y[:, :label_len, :], zeros_like(batch_y[:, -pred_len:, :])], dim=1)
DecInp(batch_y, label_len, pred_len) ==
    SliceTo(batch_y, label_len) \o Zeros(Len(SliceFrom(batch_y, 0 - pred_len)))

\* lines 452-454 (predict): cat([batch_y, zeros(B, pred_len, C)], dim=1)
DecInpPredict(batch_y, label_len, pred_len) == batch_y \o Zeros(pred_len)

Window(n) == [k \in 1..n |-> k]

\* batch_y_mark along its time axis: one time-feature vector per step
Stamps(m) == [k \in 1..m |-> 100 + k]

\* Tensor.repeat(1, k, 1) along the time axis, for k >= 0
RECURSIVE TorchRepeat(_, _)
TorchRepeat(q, k) == IF k <= 0 THEN <<>> ELSE q \o TorchRepeat(q, k - 1)

\* lines 456-459 (predict): the mask handed to the model, or the error
\* raised by repeat() on a negative count
PadMark(batch_y_mark, dec_inp) ==
    IF Len(batch_y_mark) # Len(dec_inp)
    THEN LET padding_needed == Len(dec_inp) - Len(batch_y_mark)
             last_mark == SliceFrom(batch_y_mark, 0 - 1)
         IN IF padding_needed < 0
            THEN [raised |-> "RuntimeError", steps |-> <<>>]
            ELSE [raised |-> "none",
                  steps |-> batch_y_mark \o TorchRepeat(last_mark, padding_needed)]
    ELSE [raised |-> "none", steps |-> batch_y_mark]

\* train, vali and test hand batch_y_mark to the model as loaded
KeepMark(batch_y_mark) == [raised |-> "none", steps |-> batch_y_mark]

\* batch_y holds label_len + pred_len steps; the pred loader may also hand
\* the label window alone
DecInit ==
    /\ \E l \in 0..MaxLen, h \in 0..MaxLen, n \in 0..2 * MaxLen, m \in 1..MaxMark :
         /\ n \in {l + h, l}
         /\ dec = [label_len |-> l, pred_len |-> h, batch_y |-> Window(n),
                   batch_y_mark |-> Stamps(m),
                   loop |-> "none", dec_inp |-> <<>>, y_mark |-> KeepMark(<<>>)]
    /\ TrainInit /\ ckpt = NoFile
    /\ slaLoss = "unused"
    /\ ckptPaths = "unused"
    /\ tile = "unused"

Build(loop, inp, mark) ==
    /\ dec.loop = "none"
    /\ dec' = [dec EXCEPT !.loop = loop, !.dec_inp = inp, !.y_mark = mark]
    /\ UNCHANGED <<trainVars, slaLoss, ckptPaths, tile>>

FullWindow == Len(dec.batch_y) = dec.label_len + dec.pred_len

TrainDecInp ==
    FullWindow /\ Build("train", DecInp(dec.batch_y, dec.label_len, dec.pred_len),
                       KeepMark(dec.batch_y_mark))
ValiDecInp ==
    FullWindow /\ Build("vali", DecInp(dec.batch_y, dec.label_len, dec.pred_len),
                       KeepMark(dec.batch_y_mark))
TestDecInp ==
    FullWindow /\ Build("test", DecInp(dec.batch_y, dec.label_len, dec.pred_len),
                       KeepMark(dec.batch_y_mark))
PredictDecInp ==
    /\ Len(dec.batch_y) >= dec.label_len
    /\ LET dec_inp == DecInpPredict(dec.batch_y, dec.label_len, dec.pred_len)
       IN Build("predict", dec_inp, PadMark(dec.batch_y_mark, dec_inp))

DecNext ==
    \/ TrainDecInp
    \/ ValiDecInp
    \/ TestDecInp
    \/ PredictDecInp

SpecDec == DecInit /\ [][DecNext]_vars

\* C5 as stated: in train, vali, test and predict, for all label_len >= 0
\* and pred_len >= 0, a batch_y of label_len + pred_len steps gives a
\* decoder input of exactly label_len + pred_len steps.
C5_AsStated ==
    (dec.loop # "none" /\ FullWindow)
        => Len(dec.dec_inp) = dec.label_len + dec.pred_len

\* C5 amended: in train, vali and test, for all label_len >= 0 and
\* pred_len >= 1, a batch_y of label_len + pred_len steps gives a decoder
\* input of exactly label_len + pred_len steps (the label window, then
\* zeros); in predict the decoder input has len(batch_y) + pred_len steps,
\* which is label_len + pred_len when batch_y is the label window alone.
C5_DecInpLength ==
    /\ (dec.loop \in {"train", "vali", "test"} /\ FullWindow /\ dec.pred_len >= 1)
          => /\ Len(dec.dec_inp) = dec.label_len + dec.pred_len
             /\ \A k \in 1..Len(dec.dec_inp) :
                  dec.dec_inp[k] = IF k <= dec.label_len THEN dec.batch_y[k] ELSE 0
    /\ dec.loop = "predict"
          => /\ Len(dec.dec_inp) = Len(dec.batch_y) + dec.pred_len
             /\ Len(dec.batch_y) = dec.label_len
                   => Len(dec.dec_inp) = dec.label_len + dec.pred_len

\* a training batch with no label window
C5_Witness ==
    /\ dec.loop = "train"
    /\ dec.label_len = 0
    /\ dec.pred_len = 2
    /\ dec.dec_inp = <<0, 0>>

\* C11: in predict(), a y_mark shorter than the decoder input is extended
\* to the decoder input's time length by repeating its last time step
\* padding_needed times; with padding_needed <= 0 (mask as long as or longer
\* than the decoder input) the mask reaches the model unchanged and no
\* error is raised.
C11_MarkPadding ==
    dec.loop = "predict" =>
        LET padding_needed == Len(dec.dec_inp) - Len(dec.batch_y_mark)
            last == dec.batch_y_mark[Len(dec.batch_y_mark)]
        IN /\ dec.y_mark.raised = "none"
           /\ IF padding_needed > 0
              THEN dec.y_mark.steps =
                      dec.batch_y_mark \o [k \in 1..padding_needed |-> last]
              ELSE dec.y_mark.steps = dec.batch_y_mark
\* ------------------------------------------------- checkpoint paths
\* a path string is a sequence of tokens, "/" being the separator

\* os.path.join(a, b) on POSIX
Join(a, b) ==
    IF b # <<>> /\ b[1] = "/" THEN b
    ELSE IF a = <<>> \/ a[Len(a)] = "/" THEN a \o b
    ELSE a \o <<"/">> \o b

\* the file a path names: absolute or relative, and its components
Norm(path) ==
    [abs |-> path # <<>> /\ path[1] = "/",
     comps |-> SelectSeq(path, LAMBDA t : t \notin {"/", "."})]

CheckpointFile == <<"checkpoint.pth">>

\* line 161: path = os.path.join(self.args.checkpoints, setting)
TrainDir(checkpoints, setting) == Join(checkpoints, setting)

\* EarlyStopping.save_checkpoint: {path}/checkpoint.pth
SavePath(path) == path \o <<"/">> \o CheckpointFile

\* line 288: best_model_path = path + "/" + "checkpoint.pth"
TrainBestModelPath(checkpoints, setting) ==
    TrainDir(checkpoints, setting) \o <<"/">> \o CheckpointFile

\* lines 297-301: os.path.join("./checkpoints/" + setting, "checkpoint.pth")
TestModelPath(checkpoints, setting) ==
    Join(<<".", "/", "checkpoints", "/">> \o setting, CheckpointFile)

\* lines 435-436: os.path.join(self.args.checkpoints, setting) + "/" + "checkpoint.pth"
PredictModelPath(checkpoints, setting) ==
    Join(checkpoints, setting) \o <<"/">> \o CheckpointFile

Roots ==
    { <<".", "/", "checkpoints", "/">>, <<".", "/", "checkpoints">>, <<"checkpoints">>,
      <<"/", "data", "/", "ckpt">>, <<".", "/", "ckpt", "/">> }
Settings == { <<"s1">>, <<"long_term_forecast_ETTh1">>, <<"run", "/", "1">> }

PathsInit ==
    /\ \E r \in Roots, st \in Settings :
         ckptPaths = [checkpoints |-> r, setting |-> st, made |-> <<>>, saved |-> <<>>,
                      reloaded |-> <<>>, test |-> <<>>, predict |-> <<>>]
    /\ TrainInit /\ ckpt = NoFile
    /\ slaLoss = "unused"
    /\ dec = "unused"
    /\ tile = "unused"

\* train(setting): the directory made, the file saved to, the file reloaded
TrainPaths ==
    /\ ckptPaths.made = <<>>
    /\ ckptPaths' = [ckptPaths EXCEPT
          !.made = TrainDir(ckptPaths.checkpoints, ckptPaths.setting),
          !.saved = SavePath(TrainDir(ckptPaths.checkpoints, ckptPaths.setting)),
          !.reloaded = TrainBestModelPath(ckptPaths.checkpoints, ckptPaths.setting)]
    /\ UNCHANGED <<trainVars, slaLoss, dec, tile>>

\* test(setting, test=1)
TestLoad ==
    /\ ckptPaths.test = <<>>
    /\ ckptPaths' = [ckptPaths EXCEPT
          !.test = TestModelPath(ckptPaths.checkpoints, ckptPaths.setting)]
    /\ UNCHANGED <<trainVars, slaLoss, dec, tile>>

\* predict(setting, load=True)
PredictLoad ==
    /\ ckptPaths.predict = <<>>
    /\ ckptPaths' = [ckptPaths EXCEPT
          !.predict = PredictModelPath(ckptPaths.checkpoints, ckptPaths.setting)]
    /\ UNCHANGED <<trainVars, slaLoss, dec, tile>>

PathsNext ==
    \/ TrainPaths
    \/ TestLoad
    \/ PredictLoad

SpecPaths == PathsInit /\ [][PathsNext]_vars

\* C8: the file read by test(setting, test=1) and predict(setting,
\* load=True) is the {checkpoints_root}/{setting}/checkpoint.pth that train
\* makes the directory for, saves to and reloads.
C8_SameCheckpointPath ==
    LET expected == Norm(Join(ckptPaths.checkpoints, ckptPaths.setting)
                           \o <<"/">> \o CheckpointFile)
    IN /\ ckptPaths.made # <<>> =>
             /\ Norm(ckptPaths.saved) = expected
             /\ Norm(ckptPaths.reloaded) = expected
             /\ Norm(ckptPaths.made \o <<"/">> \o CheckpointFile) = expected
       /\ ckptPaths.test # <<>> => Norm(ckptPaths.test) = expected
       /\ ckptPaths.predict # <<>> => Norm(ckptPaths.predict) = expected

\* ------------------------------------------------- channel tiling
\* an output batch is modelled as its rows after reshape(B * T, -1): one
\* sequence of channel values per time step

RECURSIVE Repeat(_, _)
Repeat(row, k) == IF k <= 0 THEN <<>> ELSE row \o Repeat(row, k - 1)

\* int(a / b) for positive a, b
IntDiv(a, b) == a \div b

\* the repetition count taken as c_tgt - c_out + 1
NpTileByDifference(outputs, c_tgt) ==
    [k \in 1..Len(outputs) |-> Repeat(outputs[k], c_tgt - Len(outputs[k]) + 1)]

\* np.tile(outputs, [1, 1, int(c_tgt / c_out)]): every row repeated along
\* the channel axis
NpTile(outputs, c_tgt) ==
    [k \in 1..Len(outputs) |-> Repeat(outputs[k], IntDiv(c_tgt, Len(outputs[k])))]

\* lines 350-357 (test), 479-486 (predict): what reaches inverse_transform;
\* reshape(B * T, -1) of an empty array raises ValueError
HandedToInverse(outputs, c_tgt) ==
    LET c_out == Len(outputs[1])
        tiled == IF c_out # c_tgt THEN NpTile(outputs, c_tgt) ELSE outputs
    IN IF Len(tiled[1]) = 0
       THEN [raised |-> "ValueError", rows |-> <<>>]
       ELSE [raised |-> "none", rows |-> tiled]

\* outputs[t][c]: a value telling its time step and channel apart
Outputs(steps, c_out) == [t \in 1..steps |-> [c \in 1..c_out |-> 10 * t + c]]

TileInit ==
    /\ \E steps \in 1..MaxSteps, c_out \in 1..MaxChan, c_tgt \in 1..MaxChan,
          inv \in BOOLEAN :
         tile = [outputs |-> Outputs(steps, c_out), c_tgt |-> c_tgt, inverse |-> inv,
                 loop |-> "none", handed |-> [raised |-> "none", rows |-> <<>>]]
    /\ TrainInit /\ ckpt = NoFile
    /\ slaLoss = "unused"
    /\ dec = "unused"
    /\ ckptPaths = "unused"

\* one batch of loop: lines 348-357 / 477-486, `if scale and inverse`
Inverse(loop) ==
    /\ tile.loop = "none"
    /\ tile' = [tile EXCEPT !.loop = loop,
                  !.handed = IF tile.inverse
                             THEN HandedToInverse(tile.outputs, tile.c_tgt)
                             ELSE tile.handed]
    /\ UNCHANGED <<trainVars, slaLoss, dec, ckptPaths>>

TestInverse == tile.loop = "none" /\ Inverse("test")
PredictInverse == tile.loop = "none" /\ Inverse("predict")

TileNext ==
    \/ TestInverse
    \/ PredictInverse

SpecTile == TileInit /\ [][TileNext]_vars

c_out == Len(tile.outputs[1])
InverseRan == tile.loop # "none" /\ tile.inverse

\* C10 as stated: with inverse scaling active, for every c_out # c_tgt the
\* output handed to inverse_transform has c_tgt channels.
C10_AsStated ==
    (InverseRan /\ c_out # tile.c_tgt) =>
        /\ tile.handed.raised = "none"
        /\ \A t \in 1..Len(tile.outputs) : Len(tile.handed.rows[t]) = tile.c_tgt

\* C10 amended: with inverse scaling active, for every c_out # c_tgt where
\* c_out divides c_tgt, the output handed to inverse_transform has been
\* tiled along the channel axis to c_tgt channels, each row being the c_out
\* values repeated c_tgt / c_out times (for c_out = 1 each value appears
\* c_tgt times in its time step).
C10_TiledToTarget ==
    (InverseRan /\ c_out # tile.c_tgt /\ tile.c_tgt % c_out = 0) =>
        /\ tile.handed.raised = "none"
        /\ \A t \in 1..Len(tile.outputs) :
             /\ Len(tile.handed.rows[t]) = tile.c_tgt
             /\ \A c \in 1..tile.c_tgt :
                  tile.handed.rows[t][c] = tile.outputs[t][((c - 1) % c_out) + 1]

\* one output channel tiled to four
C10_Witness ==
    /\ InverseRan
    /\ c_out = 1
    /\ tile.c_tgt = 4
    /\ Len(tile.outputs) = 2
    /\ tile.handed.rows = << <<11, 11, 11, 11>>, <<21, 21, 21, 21>> >>
====
